---- MODULE Spec2Model ----
(***************************************************************************)
(* The IdentityVerification contract (src/unnamed/part_000, lines 1-116)   *)
(* as a state machine.  One step is one call of an external function of    *)
(* the contract, executed in a block whose timestamp the chain supplies.   *)
(* A call that fails a require reverts: it returns the revert string and   *)
(* the storage and the log are those of before the call.                   *)
(***************************************************************************)
EXTENDS Integers, Sequences, FiniteSets, TLC

\* ---- bounds of the model ------------------------------------------------
NumAddr   == 2      \* accounts 1..NumAddr may send transactions
MaxTime   == 2      \* block timestamps range over 1..MaxTime
MaxEvents == 3      \* successful calls explored (each emits one event)
NumReq    == 2      \* POST /api/verify requests the gateway handles

Addr      == 1..NumAddr
ZeroAddr  == 0                      \* address(0), the default of an address slot
Hashes    == {"", "h1", "h2"}       \* candidate _identityHash arguments

OK        == "ok"

VARIABLES owner,          \* address public owner
          identities,     \* mapping(address => Identity)
          verifiedUsers,  \* address[]
          totalVerified,  \* uint256 public totalVerified
          events,         \* the contract's log, in emission order
          now,            \* timestamp of the latest block
          lastCall,       \* the call just executed and what it returned
          requests,       \* backend: the POST /api/verify handlers, by request
          verifications   \* backend: the documents of the Verification collection

vars     == <<owner, identities, verifiedUsers, totalVerified, events, now, lastCall,
              requests, verifications>>
gateway  == <<requests, verifications>>
storage  == <<owner, identities, verifiedUsers, totalVerified>>

\* struct Identity and the value an untouched mapping slot reads as
Identity(h, t, v, by) ==
    [identityHash |-> h, timestamp |-> t, verified |-> v, verifiedBy |-> by]

ZeroIdentity == Identity("", 0, FALSE, ZeroAddr)

\* event IdentityVerified(user, identityHash, timestamp)
IdentityVerified(u, h, t) ==
    [name |-> "IdentityVerified", user |-> u, identityHash |-> h, timestamp |-> t]

\* event IdentityRevoked(user, timestamp); the log entry has no hash
IdentityRevoked(u, t) ==
    [name |-> "IdentityRevoked", user |-> u, identityHash |-> "", timestamp |-> t]

\* ---- modifiers ----------------------------------------------------------
onlyOwner_anyone(sender) == TRUE

onlyOwner(sender) == sender = owner

notAlreadyVerified_absent(sender) == TRUE

notAlreadyVerified_history(sender) == identities[sender] = ZeroIdentity

notAlreadyVerified(sender) == ~identities[sender].verified

\* ---- view functions -----------------------------------------------------
getIdentity(u) ==
    LET id == identities[u] IN <<id.identityHash, id.timestamp, id.verified>>

isVerified(u) == identities[u].verified

getTotalVerified == totalVerified

\* ---- outcome of a transaction --------------------------------------------
\* the contract's storage and log as one value
Current ==
    [identities |-> identities, verifiedUsers |-> verifiedUsers,
     totalVerified |-> totalVerified, events |-> events]

Revert(msg) == [result |-> msg, st |-> Current]

Commit(s)   == [result |-> OK, st |-> s]

\* the struct literal assigned at lines 68-73
NewIdentity_byOwner(sender, h, t) == Identity(h, t, TRUE, owner)

NewIdentity(sender, h, t) == Identity(h, t, TRUE, sender)

VerifiedState_ownerSlot(sender, h, t) ==
    [identities    |-> [identities EXCEPT ![owner] = NewIdentity(sender, h, t)],
     verifiedUsers |-> Append(verifiedUsers, sender),
     totalVerified |-> totalVerified + 1,
     events        |-> Append(events, IdentityVerified(sender, h, t))]

VerifiedState_emitsStored(sender, h, t) ==
    [identities    |-> [identities EXCEPT ![sender] = NewIdentity(sender, h, t)],
     verifiedUsers |-> Append(verifiedUsers, sender),
     totalVerified |-> totalVerified + 1,
     events        |-> Append(events,
                         IdentityVerified(sender, identities[sender].identityHash, t))]

VerifiedState(sender, h, t) ==
    [identities    |-> [identities EXCEPT ![sender] = NewIdentity(sender, h, t)],
     verifiedUsers |-> Append(verifiedUsers, sender),
     totalVerified |-> totalVerified + 1,
     events        |-> Append(events, IdentityVerified(sender, h, t))]

verifyIdentityExec_noEmptyCheck(sender, h, t) ==
    IF ~notAlreadyVerified(sender) THEN Revert("Already verified")
    ELSE Commit(VerifiedState(sender, h, t))

verifyIdentityExec_softFail(sender, h, t) ==
    IF ~notAlreadyVerified(sender) THEN Revert("Already verified")
    ELSE IF h = "" THEN [result |-> "Hash cannot be empty",
                         st |-> VerifiedState(sender, h, t)]
    ELSE Commit(VerifiedState(sender, h, t))

verifyIdentityExec(sender, h, t) ==
    IF ~notAlreadyVerified(sender) THEN Revert("Already verified")
    ELSE IF ~(h # "") THEN Revert("Hash cannot be empty")
    ELSE Commit(VerifiedState(sender, h, t))

RevokedState_delete(u, t) ==
    [identities    |-> [identities EXCEPT ![u] = ZeroIdentity],
     verifiedUsers |-> verifiedUsers,
     totalVerified |-> totalVerified,
     events        |-> Append(events, IdentityRevoked(u, t))]

RevokedState_noEmit(u, t) ==
    [identities    |-> [identities EXCEPT ![u].verified = FALSE],
     verifiedUsers |-> verifiedUsers,
     totalVerified |-> totalVerified,
     events        |-> events]

RevokedState_ownerSlot(u, t) ==
    [identities    |-> [identities EXCEPT ![owner].verified = FALSE],
     verifiedUsers |-> verifiedUsers,
     totalVerified |-> totalVerified,
     events        |-> Append(events, IdentityRevoked(u, t))]

RevokedState_decrements(u, t) ==
    [identities    |-> [identities EXCEPT ![u].verified = FALSE],
     verifiedUsers |-> verifiedUsers,
     totalVerified |-> totalVerified - 1,
     events        |-> Append(events, IdentityRevoked(u, t))]

RevokedState(u, t) ==
    [identities    |-> [identities EXCEPT ![u].verified = FALSE],
     verifiedUsers |-> verifiedUsers,
     totalVerified |-> totalVerified,
     events        |-> Append(events, IdentityRevoked(u, t))]

revokeIdentityExec_stateFirst(sender, u, t) ==
    IF ~identities[u].verified THEN Revert("Not verified")
    ELSE IF ~onlyOwner(sender) THEN Revert("Not contract owner")
    ELSE Commit(RevokedState(u, t))

revokeIdentityExec_noRequire(sender, u, t) ==
    IF ~onlyOwner(sender) THEN Revert("Not contract owner")
    ELSE Commit(RevokedState(u, t))

revokeIdentityExec(sender, u, t) ==
    IF ~onlyOwner(sender) THEN Revert("Not contract owner")
    ELSE IF ~identities[u].verified THEN Revert("Not verified")
    ELSE Commit(RevokedState(u, t))

Call(op, sender, u, h, t, result, ret) ==
    [op |-> op, sender |-> sender, user |-> u, hash |-> h, ts |-> t,
     result |-> result, ret |-> ret]

Apply_submitterBecomesOwner(x) ==
    /\ identities'    = x.st.identities
    /\ verifiedUsers' = x.st.verifiedUsers
    /\ totalVerified' = x.st.totalVerified
    /\ events'        = x.st.events
    /\ owner' = IF Len(x.st.verifiedUsers) > Len(verifiedUsers)
                THEN x.st.verifiedUsers[Len(x.st.verifiedUsers)]
                ELSE owner

\* storage and log after a transaction with outcome x
Apply(x) ==
    /\ identities'    = x.st.identities
    /\ verifiedUsers' = x.st.verifiedUsers
    /\ totalVerified' = x.st.totalVerified
    /\ events'        = x.st.events
    /\ UNCHANGED owner

\* ---- backend: data of POST /api/verify --------------------------------------
ReqId   == 1..NumReq

\* candidate request bodies; "" stands for a field the body does not carry
Wallets == {"", "0xab", "0xAB", "0xcd"}

Bodies  == [walletAddress : Wallets, identityHash : {"", "h1"}, txHash : {"", "tx"}]

\* String.prototype.toLowerCase on the modelled addresses
ToLowerCase(w) == IF w = "0xAB" THEN "0xab" ELSE w

NoBody == [walletAddress |-> "", identityHash |-> "", txHash |-> ""]

\* a request: where its handler stands, its body, the HTTP status it answered
Request(pc, body, status) == [pc |-> pc, body |-> body, status |-> status]

\* ---- the constructor (and the start of the backend) -------------------------
Init ==
    /\ owner \in Addr
    /\ identities = [a \in Addr |-> ZeroIdentity]
    /\ verifiedUsers = <<>>
    /\ totalVerified = 0
    /\ events = <<>>
    /\ now = 1
    /\ lastCall = Call("constructor", owner, ZeroAddr, "", 1, OK, <<>>)
    /\ requests = [r \in ReqId |-> Request("idle", NoBody, 0)]
    /\ verifications = <<>>

\* ---- transactions ---------------------------------------------------------
verifyIdentity(sender, h, t) ==
    LET x == verifyIdentityExec(sender, h, t) IN
    /\ x.result = OK => Len(events) < MaxEvents
    /\ Apply(x)
    /\ now' = t
    /\ lastCall' = Call("verifyIdentity", sender, ZeroAddr, h, t, x.result, <<>>)
    /\ UNCHANGED gateway

revokeIdentity(sender, u, t) ==
    LET x == revokeIdentityExec(sender, u, t) IN
    /\ x.result = OK => Len(events) < MaxEvents
    /\ Apply(x)
    /\ now' = t
    /\ lastCall' = Call("revokeIdentity", sender, u, "", t, x.result, <<>>)
    /\ UNCHANGED gateway

\* ---- calls of the view functions (read the latest block) -------------------
CallGetIdentity(u) ==
    /\ lastCall' = Call("getIdentity", ZeroAddr, u, "", now, OK, getIdentity(u))
    /\ UNCHANGED <<storage, events, now, gateway>>

CallIsVerified(u) ==
    /\ lastCall' = Call("isVerified", ZeroAddr, u, "", now, OK, <<isVerified(u)>>)
    /\ UNCHANGED <<storage, events, now, gateway>>

CallGetTotalVerified ==
    /\ lastCall' = Call("getTotalVerified", ZeroAddr, ZeroAddr, "", now, OK,
                        <<getTotalVerified>>)
    /\ UNCHANGED <<storage, events, now, gateway>>

Next ==
    \/ \E sender \in Addr, h \in Hashes, t \in now..MaxTime : verifyIdentity(sender, h, t)
    \/ \E sender \in Addr, u \in Addr, t \in now..MaxTime : revokeIdentity(sender, u, t)
    \/ \E u \in Addr : CallGetIdentity(u)
    \/ \E u \in Addr : CallIsVerified(u)
    \/ CallGetTotalVerified

Spec == Init /\ [][Next]_vars

\* ---- backend: POST /api/verify (lines 179-205) ------------------------------
\* The handler runs to its next await; the database answers each query at a
\* later step.  walletAddress carries a unique index (line 138).
contract == <<storage, events, now, lastCall>>

\* Verification.findOne({ walletAddress: w })
FindOne(w) == \E k \in 1..Len(verifications) : verifications[k].walletAddress = w

\* the document built at lines 189-193
NewVerification(body) ==
    [walletAddress |-> ToLowerCase(body.walletAddress),
     identityHash  |-> body.identityHash,
     txHash        |-> body.txHash,
     status        |-> "verified"]

\* the unique index on walletAddress refuses the insert (E11000)
DuplicateKey(doc) ==
    \E k \in 1..Len(verifications) : verifications[k].walletAddress = doc.walletAddress

\* lines 181-185: the body is checked, then findOne is issued
PostVerify(r, body) ==
    /\ requests[r].pc = "idle"
    /\ requests' = [requests EXCEPT ![r] =
          IF body.walletAddress = "" \/ body.identityHash = "" \/ body.txHash = ""
          THEN Request("done", body, 400)
          ELSE Request("findOne", body, 0)]
    /\ UNCHANGED <<verifications, contract>>

\* lines 185-194: findOne has answered; 409 if a document exists, else save is issued
FindOneReturns(r) ==
    /\ requests[r].pc = "findOne"
    /\ requests' = [requests EXCEPT ![r] =
          IF FindOne(ToLowerCase(requests[r].body.walletAddress))
          THEN Request("done", requests[r].body, 409)
          ELSE Request("save", requests[r].body, 0)]
    /\ UNCHANGED <<verifications, contract>>

\* lines 194-204: save has answered; 201, or 500 from the catch when it threw
SaveReturns(r) ==
    LET doc == NewVerification(requests[r].body) IN
    /\ requests[r].pc = "save"
    /\ IF DuplicateKey(doc)
       THEN /\ requests' = [requests EXCEPT ![r] = Request("done", requests[r].body, 500)]
            /\ UNCHANGED verifications
       ELSE /\ requests' = [requests EXCEPT ![r] = Request("done", requests[r].body, 201)]
            /\ verifications' = Append(verifications, doc)
    /\ UNCHANGED contract

GatewayNext ==
    \/ \E r \in ReqId, body \in Bodies : PostVerify(r, body)
    \/ \E r \in ReqId : FindOneReturns(r)
    \/ \E r \in ReqId : SaveReturns(r)

SpecGateway == Init /\ [][GatewayNext]_vars

TypeOK ==
    /\ owner \in Addr
    /\ \A a \in Addr : identities[a].timestamp \in 0..MaxTime
    /\ totalVerified \in 0..MaxEvents
    /\ Len(events) <= MaxEvents
    /\ now \in 1..MaxTime

\* ---- vocabulary of the properties ------------------------------------------
Unset    == "Unset"
Verified == "Verified"
Revoked  == "Revoked"

\* the lifecycle state of an identifier, read off its record
StateOf(i) ==
    IF identities[i].verified THEN Verified
    ELSE IF identities[i] = ZeroIdentity THEN Unset
    ELSE Revoked

VerifiedCount == Cardinality({i \in Addr : isVerified(i)})

Rejections ==
    {"Already verified", "Hash cannot be empty", "Not contract owner", "Not verified"}

\* the step just taken is the call lastCall' describes (every step records its call)
Submits(i)    == lastCall'.op = "verifyIdentity" /\ lastCall'.sender = i
Revokes(c, i) == lastCall'.op = "revokeIdentity" /\ lastCall'.sender = c /\ lastCall'.user = i

\* ---- C1 ---------------------------------------------------------------------
\* C1: in every reachable state getTotalVerified() equals the number of
\* identifiers i for which isVerified(i) is true.
C1_TotalEqualsVerifiedCount == getTotalVerified = VerifiedCount

\* ---- C2 ---------------------------------------------------------------------
\* C2: when the owner revokes an identifier whose record is verified, the call
\* succeeds, isVerified(i) is false afterwards and getTotalVerified() is exactly
\* one less than before the call.
C2_RevokeDecrementsTotal ==
    [][\A i \in Addr :
        (Revokes(owner, i) /\ isVerified(i)) =>
            /\ lastCall'.result = OK
            /\ ~isVerified(i)'
            /\ getTotalVerified' = getTotalVerified - 1]_vars

\* ---- C3 ---------------------------------------------------------------------
\* C3 (as stated): verifyIdentity with an empty hash always fails with
\* "Hash cannot be empty", whatever the prior state of the caller.
C3_EmptyHashAlwaysEmptyHashError ==
    [][\A i \in Addr :
        (Submits(i) /\ lastCall'.hash = "") =>
            lastCall'.result = "Hash cannot be empty"]_vars

\* C3 (amended): verifyIdentity with an empty hash always fails and changes
\* nothing; the error is "Hash cannot be empty" when the caller is unset or
\* revoked, and "Already verified" when the caller is currently verified.
C3_EmptyHashAlwaysFails ==
    [][\A i \in Addr :
        (Submits(i) /\ lastCall'.hash = "") =>
            /\ lastCall'.result =
                  IF isVerified(i) THEN "Already verified" ELSE "Hash cannot be empty"
            /\ UNCHANGED <<storage, events>>]_vars

C3_Witness ==
    /\ lastCall.op = "verifyIdentity"
    /\ lastCall.hash = ""
    /\ lastCall.result = "Already verified"
    /\ isVerified(lastCall.sender)

\* ---- C4 ---------------------------------------------------------------------
\* C4: verifyIdentity by a caller whose record is currently verified fails with
\* "Already verified" for every hash, and the caller's record is unchanged.
C4_SubmitWhileVerifiedRejected ==
    [][\A i \in Addr :
        (Submits(i) /\ isVerified(i)) =>
            /\ lastCall'.result = "Already verified"
            /\ identities'[i] = identities[i]]_vars

C4_Witness ==
    /\ lastCall.op = "verifyIdentity"
    /\ lastCall.result = "Already verified"
    /\ lastCall.hash # ""
    /\ identities[lastCall.sender].verified
    /\ identities[lastCall.sender].identityHash # lastCall.hash

\* ---- C5 ---------------------------------------------------------------------
\* C5: revokeIdentity by a caller that is not the owner fails with
\* "Not contract owner" in every state of the subject (the authorization check
\* comes before the "Not verified" check), and the subject's record is unchanged.
C5_NonOwnerRevokeUnauthorized ==
    [][\A c \in Addr, i \in Addr :
        (Revokes(c, i) /\ c # owner) =>
            /\ lastCall'.result = "Not contract owner"
            /\ identities'[i] = identities[i]]_vars

C5_Witness ==
    /\ lastCall.op = "revokeIdentity"
    /\ lastCall.sender # owner
    /\ lastCall.result = "Not contract owner"
    /\ ~isVerified(lastCall.user)

\* ---- C6 ---------------------------------------------------------------------
\* C6: revokeIdentity by the owner on an identifier that is not currently
\* verified fails with "Not verified"; a revoke of the identifier that the
\* previous call has just revoked therefore fails.
C6_RevokeNotVerifiedRejected ==
    [][/\ \A i \in Addr :
            (Revokes(owner, i) /\ ~isVerified(i)) => lastCall'.result = "Not verified"
       /\ (/\ lastCall.op = "revokeIdentity" /\ lastCall.result = OK
           /\ lastCall'.op = "revokeIdentity" /\ lastCall'.user = lastCall.user)
              => lastCall'.result \in Rejections]_vars

C6_Witness ==
    /\ lastCall.op = "revokeIdentity"
    /\ lastCall.sender = owner
    /\ lastCall.result = "Not verified"
    /\ StateOf(lastCall.user) = Revoked

\* ---- C7 ---------------------------------------------------------------------
\* C7: a rejected verifyIdentity or revokeIdentity leaves every record,
\* totalVerified, verifiedUsers, the owner and the event log as they were.
C7_RejectedCallChangesNothing ==
    [][(lastCall'.op \in {"verifyIdentity", "revokeIdentity"} /\ lastCall'.result # OK) =>
            /\ lastCall'.result \in Rejections
            /\ UNCHANGED <<owner, identities, verifiedUsers, totalVerified, events>>]_vars

C7_Witness ==
    /\ lastCall.op = "verifyIdentity"
    /\ lastCall.result = "Hash cannot be empty"
    /\ StateOf(lastCall.sender) = Revoked
    /\ events # <<>>

\* ---- C8 ---------------------------------------------------------------------
\* C8: after a successful verifyIdentity(h) by i in a block of timestamp t the
\* record of i is {h, t, true, i}, isVerified(i) is true and getIdentity(i)
\* returns (h, t, true); in every state a record that has been written names
\* the identifier it is stored under as its submitter.
SubmitterIsSubject ==
    \A i \in Addr : identities[i] # ZeroIdentity => identities[i].verifiedBy = i

C8_SubmitWritesRecord ==
    /\ []SubmitterIsSubject
    /\ [][\A i \in Addr :
            (Submits(i) /\ lastCall'.result = OK) =>
                /\ identities'[i] = Identity(lastCall'.hash, lastCall'.ts, TRUE, i)
                /\ isVerified(i)'
                /\ getIdentity(i)' = <<lastCall'.hash, lastCall'.ts, TRUE>>]_vars

C8_Witness ==
    /\ lastCall.op = "verifyIdentity"
    /\ lastCall.result = OK
    /\ lastCall.sender # owner
    /\ getIdentity(lastCall.sender) = <<lastCall.hash, lastCall.ts, TRUE>>

\* ---- C9 ---------------------------------------------------------------------
\* C9: verified goes from true to false only in a successful revokeIdentity of
\* that identifier by the owner, and from false to true only in a successful
\* verifyIdentity by that identifier; the only changes of lifecycle state are
\* Unset->Verified, Verified->Revoked and Revoked->Verified, and no
\* verifyIdentity succeeds for a caller that is verified.
C9_LifecycleTransitions ==
    [][\A i \in Addr :
        /\ (isVerified(i) /\ ~isVerified(i)') =>
              (Revokes(owner, i) /\ lastCall'.result = OK)
        /\ (~isVerified(i) /\ isVerified(i)') =>
              (Submits(i) /\ lastCall'.result = OK)
        /\ StateOf(i)' # StateOf(i) =>
              <<StateOf(i), StateOf(i)'>> \in
                  {<<Unset, Verified>>, <<Verified, Revoked>>, <<Revoked, Verified>>}
        /\ (isVerified(i) /\ Submits(i)) => lastCall'.result # OK]_vars

C9_Witness ==
    /\ lastCall.op = "revokeIdentity"
    /\ lastCall.result = OK
    /\ lastCall.sender = owner
    /\ lastCall.user # owner
    /\ StateOf(lastCall.user) = Revoked
    /\ events[Len(events)] = IdentityRevoked(lastCall.user, lastCall.ts)

\* ---- C10 --------------------------------------------------------------------
\* C10: a verifyIdentity with a non-empty hash by an identifier that is revoked
\* succeeds and overwrites the record: isVerified is true and getIdentity
\* returns the new hash and the new block timestamp.
C10_ResubmitAfterRevoke ==
    [][\A i \in Addr :
        (StateOf(i) = Revoked /\ Submits(i) /\ lastCall'.hash # "") =>
            /\ lastCall'.result = OK
            /\ isVerified(i)'
            /\ getIdentity(i)' = <<lastCall'.hash, lastCall'.ts, TRUE>>]_vars

C10_Witness ==
    /\ lastCall.op = "verifyIdentity"
    /\ lastCall.result = OK
    /\ getIdentity(lastCall.sender) = <<lastCall.hash, lastCall.ts, TRUE>>
    /\ \E j \in 1..Len(events), k \in 1..Len(events) :
          /\ j < k
          /\ events[j].name = "IdentityVerified" /\ events[j].user = lastCall.sender
          /\ events[j].identityHash # lastCall.hash
          /\ events[j].timestamp # lastCall.ts
          /\ events[k] = IdentityRevoked(lastCall.sender, events[k].timestamp)

\* ---- C11 --------------------------------------------------------------------
\* C11: verifiedUsers contains each identifier at most once in every state,
\* also after the same identifier has submitted, been revoked and submitted
\* again.
C11_EnumerationHasNoDuplicates ==
    \A j \in 1..Len(verifiedUsers), k \in 1..Len(verifiedUsers) :
        j # k => verifiedUsers[j] # verifiedUsers[k]

\* ---- C12 --------------------------------------------------------------------
\* C12: the event log only grows at its end: a successful verifyIdentity
\* appends exactly one IdentityVerified carrying the hash and timestamp written
\* to the record, a successful revokeIdentity appends exactly one
\* IdentityRevoked, and every other step leaves the log as it was.
C12_EventLogAppendOnly ==
    [][/\ \A i \in Addr :
            (Submits(i) /\ lastCall'.result = OK) =>
                /\ events' = Append(events,
                       IdentityVerified(i, identities'[i].identityHash,
                                        identities'[i].timestamp))
                /\ identities'[i].identityHash = lastCall'.hash
                /\ identities'[i].timestamp = lastCall'.ts
       /\ \A c \in Addr, i \in Addr :
            (Revokes(c, i) /\ lastCall'.result = OK) =>
                events' = Append(events, IdentityRevoked(i, lastCall'.ts))
       /\ ~(lastCall'.op \in {"verifyIdentity", "revokeIdentity"} /\ lastCall'.result = OK)
              => events' = events
       /\ Len(events') >= Len(events)
       /\ SubSeq(events', 1, Len(events)) = events]_vars

C12_Witness ==
    /\ Len(events) = 3
    /\ events[1].name = "IdentityVerified"
    /\ events[2].name = "IdentityRevoked"
    /\ events[3].name = "IdentityVerified"
    /\ events[3].identityHash # events[1].identityHash
    /\ lastCall.op = "getTotalVerified"

\* ---- C13 --------------------------------------------------------------------
\* C13: in every state an identifier whose record is verified has a non-empty
\* identityHash.
C13_VerifiedHasNonEmptyHash ==
    \A i \in Addr : identities[i].verified => identities[i].identityHash # ""

C13_Witness ==
    /\ lastCall.op = "verifyIdentity"
    /\ lastCall.hash = ""
    /\ lastCall.result = "Hash cannot be empty"
    /\ \E i \in Addr : identities[i].verified /\ identities[i].identityHash = "h2"

\* ---- C14 --------------------------------------------------------------------
\* C14: the owner is the account that called the constructor and no call by
\* anyone changes it, so the set of accounts that pass onlyOwner never changes.
C14_OwnerFixed ==
    /\ [](lastCall.op = "constructor" => lastCall.sender = owner)
    /\ [][/\ owner' = owner
          /\ {c \in Addr : onlyOwner(c)}' = {c \in Addr : onlyOwner(c)}]_vars

C14_Witness ==
    /\ lastCall.op = "revokeIdentity"
    /\ lastCall.sender = owner
    /\ lastCall.result = OK
    /\ \E k \in 1..Len(events) :
          events[k].name = "IdentityVerified" /\ events[k].user # owner

\* ---- C15 --------------------------------------------------------------------
\* C15: for an identifier that has never successfully submitted, getIdentity
\* returns ("", 0, false) and isVerified returns false in every state, whatever
\* the other identifiers have done and whatever calls were rejected.
NeverSubmitted(i) ==
    \A k \in 1..Len(events) :
        ~(events[k].name = "IdentityVerified" /\ events[k].user = i)

C15_NeverSubmittedReadsZero ==
    /\ \A i \in Addr :
          NeverSubmitted(i) => (getIdentity(i) = <<"", 0, FALSE>> /\ ~isVerified(i))
    /\ (lastCall.op = "getIdentity" /\ NeverSubmitted(lastCall.user))
          => lastCall.ret = <<"", 0, FALSE>>
    /\ (lastCall.op = "isVerified" /\ NeverSubmitted(lastCall.user))
          => lastCall.ret = <<FALSE>>

C15_Witness ==
    /\ lastCall.op = "getIdentity"
    /\ NeverSubmitted(lastCall.user)
    /\ lastCall.ret = <<"", 0, FALSE>>
    /\ Len(events) >= 2
    /\ events[Len(events)].name = "IdentityRevoked"

\* ---- C16 --------------------------------------------------------------------
\* C16: a successful revokeIdentity changes only the verified flag of the
\* subject's record: identityHash, timestamp and verifiedBy keep their values,
\* getIdentity returns the last submitted hash and timestamp with false,
\* verifiedUsers is unchanged and the record is not the zero-value record.
C16_RevokeOnlyClearsFlag ==
    [][\A c \in Addr, i \in Addr :
        (Revokes(c, i) /\ lastCall'.result = OK) =>
            /\ identities'[i] = [identities[i] EXCEPT !.verified = FALSE]
            /\ getIdentity(i)' =
                  <<identities[i].identityHash, identities[i].timestamp, FALSE>>
            /\ identities'[i] # ZeroIdentity
            /\ verifiedUsers' = verifiedUsers]_vars

C16_Witness ==
    /\ lastCall.op = "revokeIdentity"
    /\ lastCall.result = OK
    /\ getIdentity(lastCall.user) \in
          {<<h, t, FALSE>> : h \in Hashes \ {""}, t \in 1..MaxTime}
    /\ identities[lastCall.user].verifiedBy = lastCall.user
    /\ verifiedUsers = <<lastCall.user>>

\* ---- C18 --------------------------------------------------------------------
\* C18: the log mirrors the records: isVerified(i) holds iff the most recent
\* event about i is an IdentityVerified; when i has an IdentityVerified event
\* the stored hash and timestamp are those of its most recent one; the events
\* about i alternate IdentityVerified, IdentityRevoked, ... and start with an
\* IdentityVerified.
EventsOf(i) == SelectSeq(events, LAMBDA e : e.user = i)

VerifiedEventsOf(i) == SelectSeq(events, LAMBDA e : e.user = i /\ e.name = "IdentityVerified")

Last(q) == q[Len(q)]

C18_LogMirrorsRecords ==
    \A i \in Addr :
        LET es == EventsOf(i)
            vs == VerifiedEventsOf(i) IN
        /\ isVerified(i) <=> (es # <<>> /\ Last(es).name = "IdentityVerified")
        /\ vs # <<>> =>
              /\ identities[i].identityHash = Last(vs).identityHash
              /\ identities[i].timestamp = Last(vs).timestamp
        /\ \A k \in 1..Len(es) :
              es[k].name = IF k % 2 = 1 THEN "IdentityVerified" ELSE "IdentityRevoked"

C18_Witness ==
    \E i \in Addr :
        /\ Len(EventsOf(i)) = 3
        /\ isVerified(i)
        /\ identities[i].identityHash # EventsOf(i)[1].identityHash
        /\ identities[i].timestamp # EventsOf(i)[1].timestamp

\* ---- C19 --------------------------------------------------------------------
\* C19: a successful verifyIdentity by i changes no record but i's and a
\* successful revokeIdentity of j changes no record but j's; a record becomes
\* verified or gets another identityHash only in a call sent by its own
\* identifier.
C19_PerIdentifierIsolation ==
    [][\A i \in Addr :
        /\ identities'[i] # identities[i] =>
              /\ lastCall'.result = OK
              /\ Submits(i) \/ (lastCall'.op = "revokeIdentity" /\ lastCall'.user = i)
        /\ ((isVerified(i)' /\ ~isVerified(i))
             \/ identities'[i].identityHash # identities[i].identityHash)
              => Submits(i)]_vars

C19_Witness ==
    /\ lastCall.op = "revokeIdentity"
    /\ lastCall.result = OK
    /\ lastCall.user # owner
    /\ isVerified(owner)
    /\ identities[owner].identityHash # identities[lastCall.user].identityHash

\* ---- C20 --------------------------------------------------------------------
\* C20: in every state totalVerified equals the length of verifiedUsers and
\* the number of IdentityVerified events emitted so far, and totalVerified
\* never decreases.
NumVerifiedEvents == Len(SelectSeq(events, LAMBDA e : e.name = "IdentityVerified"))

ValidBody(body) ==
    body.walletAddress # "" /\ body.identityHash # "" /\ body.txHash # ""

Answered(r) == requests[r].pc = "done"

C17_DuplicatePostsAnswered409 ==
    /\ \A r \in ReqId, q \in ReqId :
          (/\ r # q /\ Answered(r) /\ Answered(q)
           /\ requests[r].status = 201 /\ requests[q].status = 201)
             => ToLowerCase(requests[r].body.walletAddress)
                  # ToLowerCase(requests[q].body.walletAddress)
    /\ \A j \in 1..Len(verifications), k \in 1..Len(verifications) :
          j # k => verifications[j].walletAddress # verifications[k].walletAddress
    /\ \A r \in ReqId :
          (Answered(r) /\ ValidBody(requests[r].body)) => requests[r].status \in {201, 409}
====
